---- MODULE Spec2Model ----
(***************************************************************************)
(* Warehouse API: products, their stock quantity and the stock-movement    *)
(* ledger (app/crud.py, app/models.py, app/schemas.py).                    *)
(*                                                                         *)
(* The database is the committed state: the products, stock_movements,     *)
(* categories and suppliers tables and the two SERIAL id counters.  Every  *)
(* request runs in its own ORM session; a handler that reads, computes in  *)
(* Python and then commits is two steps (its read and its commit), and     *)
(* create_product, which commits twice, is three.  A single SELECT is one  *)
(* step.  Constraint checks (UNIQUE, NOT NULL, FOREIGN KEY) are those of   *)
(* the schema in app/models.py as the configured PostgreSQL enforces them. *)
(***************************************************************************)
EXTENDS Integers, Sequences, FiniteSets, TLC

\* ---------------------------------------------------------------- bounds
MaxProducts == 2
MaxMovements == 2
MaxTime == 1
MaxQty == 2
MaxReads == 2
MaxCategories == 2
MaxSuppliers == 2

\* Optional[int] = None, and a field left out of a request body
NULL == -1
UNSET == -2

Sessions == {"s1", "s2"}
SeqSessions == {"s1"}
Skus == {11, 12}
ProductIds == 1..MaxProducts
Deltas == {-1, 0, 1}
Skips == {0, 1}
Limits == {1, 2}
CategoryIds == 1..MaxCategories
SupplierIds == 1..MaxSuppliers
Names == {21, 22}

VARIABLES products, movements, categories, suppliers,
          nextProductId, nextMovementId, nextCategoryId, nextSupplierId,
          now, sess, last, reads

\* the categories and suppliers tables with their id counters
catalog == <<categories, suppliers, nextCategoryId, nextSupplierId>>
db == <<products, movements, categories, suppliers,
        nextProductId, nextMovementId, nextCategoryId, nextSupplierId>>
vars == <<products, movements, categories, suppliers,
          nextProductId, nextMovementId, nextCategoryId, nextSupplierId,
          now, sess, last, reads>>

\* ------------------------------------------------------------- helpers
Idle == [pc |-> "idle"]
AllIdle == \A s \in Sessions : sess[s].pc = "idle"

\* the response of the handler step that ran last: its status, the stock
\* quantity and the requested magnitude it carries, and the ids of the
\* products a low-stock listing returns
Response(op, status, qty, req, ids) ==
    [op |-> op, status |-> status, qty |-> qty, req |-> req, ids |-> ids]

NotFoundAsOk(op) == Response(op, 200, 0, 0, {})

\* raise HTTPException(status_code=status.HTTP_404_NOT_FOUND, ...)
NotFound(op) == Response(op, 404, 0, 0, {})

AbsSigned(x) == x

Abs(x) == IF x < 0 THEN 0 - x ELSE x
Min(a, b) == IF a < b THEN a ELSE b
Max(a, b) == IF a > b THEN a ELSE b

\* Python truthiness of an Optional[int]: None and 0 are falsy
Truthy(x) == x # NULL /\ x # 0

MovementsOf(ms, p) == {m \in ms : m.product_id = p}

StockMovement(id, p, q, kind, ts) ==
    [id |-> id, product_id |-> p, quantity |-> q, movement_type |-> kind, created_at |-> ts]

\* ------------------------------------------------------------ lookups
get_product_by_sku(prods, sku) == {p \in DOMAIN prods : prods[p].sku = sku}

get_category(cats, c) == c \in DOMAIN cats

get_supplier(sups, c) == c \in DOMAIN sups

\* ----------------------------------------------------- reorder evaluator
needs_reorder(prod) == prod.stock_quantity <= prod.reorder_level

get_low_stock_productsStrict(prods) ==
    {p \in DOMAIN prods : prods[p].stock_quantity < prods[p].reorder_level}

get_low_stock_products(prods) ==
    {p \in DOMAIN prods : prods[p].stock_quantity <= prods[p].reorder_level}

\* ------------------------------------------------------------- history
\* ORDER BY created_at DESC: every enumeration of the product's rows whose
\* timestamps never increase; rows with equal timestamps come in any order.
HistoryOrders(ms, p) ==
    LET S == MovementsOf(ms, p)
        n == Cardinality(S)
    IN {q \in [1..n -> S] :
          /\ \A i, j \in 1..n : i # j => q[i] # q[j]
          /\ \A i, j \in 1..n : i < j => q[i].created_at >= q[j].created_at}

\* OFFSET skip LIMIT limit
Page(q, skip, limit) ==
    LET k == Max(0, Min(limit, Len(q) - skip))
    IN [i \in 1..k |-> q[skip + i]]

\* ------------------------------------------------ adjust_product_stock
new_quantityTwice(stock, delta) == stock + delta + delta

new_quantity(stock, delta) == stock + delta

InsufficientLax(nq) == nq < -1

Insufficient(nq) == nq < 0

movement_typeZeroIn(delta) == IF delta >= 0 THEN "stock_in" ELSE "stock_out"

movement_typeFlipped(delta) == IF delta > 0 THEN "stock_out" ELSE "stock_in"

movement_type(delta) == IF delta > 0 THEN "stock_in" ELSE "stock_out"

AdjustBegin(s, p, d) ==
    /\ sess[s].pc = "idle"
    /\ IF p \notin DOMAIN products
       THEN /\ last' = NotFound("adjust")
            /\ UNCHANGED sess
       ELSE IF Insufficient(new_quantity(products[p].stock_quantity, d))
       THEN /\ last' = Response("adjust", 400, products[p].stock_quantity, Abs(d), {})
            /\ UNCHANGED sess
       ELSE /\ sess' = [sess EXCEPT ![s] =
                         [pc |-> "adjust_commit", pid |-> p, delta |-> d,
                          loaded |-> products[p].stock_quantity,
                          nq |-> new_quantity(products[p].stock_quantity, d),
                          ts |-> now]]
            /\ UNCHANGED last
    /\ UNCHANGED <<db, now, reads>>

\* the UPDATE of the flush: a column is written when its value differs from
\* the one the session loaded
AdjustedProductsAll(prods, r) ==
    IF r.nq # r.loaded
    THEN [p \in DOMAIN prods |-> [prods[p] EXCEPT !.stock_quantity = r.nq]]
    ELSE prods

AdjustedProducts(prods, r) ==
    IF r.nq # r.loaded
    THEN [prods EXCEPT ![r.pid].stock_quantity = r.nq]
    ELSE prods

AdjustedMovementsNone(ms, r, id) == ms

AdjustedMovementsRewrite(ms, r, id) ==
    {m \in ms : m.product_id # r.pid}
       \cup {StockMovement(id, r.pid, r.delta, movement_type(r.delta), r.ts)}

AdjustedMovements(ms, r, id) ==
    ms \cup {StockMovement(id, r.pid, r.delta, movement_type(r.delta), r.ts)}

AdjustCommit(s) ==
    /\ sess[s].pc = "adjust_commit"
    /\ LET r == sess[s] IN
       IF r.pid \notin DOMAIN products
       THEN /\ last' = Response("adjust", 500, 0, 0, {})
            /\ UNCHANGED db
       ELSE /\ products' = AdjustedProducts(products, r)
            /\ movements' = AdjustedMovements(movements, r, nextMovementId)
            /\ nextMovementId' = nextMovementId + 1
            /\ last' = Response("adjust", 200, products'[r.pid].stock_quantity, 0, {})
            /\ UNCHANGED <<catalog, nextProductId>>
    /\ sess' = [sess EXCEPT ![s] = Idle]
    /\ reads' = <<>>
    /\ UNCHANGED now

\* ------------------------------------------------------ create_product
ProductRow(req) ==
    [sku |-> req.sku, stock_quantity |-> req.stock_quantity,
     reorder_level |-> req.reorder_level,
     category_id |-> req.category_id, supplier_id |-> req.supplier_id]

CreateBegin(s, req) ==
    /\ sess[s].pc = "idle"
    /\ IF get_product_by_sku(products, req.sku) # {}
       THEN /\ last' = Response("create_product", 400, 0, 0, {})
            /\ UNCHANGED sess
       ELSE IF Truthy(req.category_id) /\ ~get_category(categories, req.category_id)
       THEN /\ last' = NotFound("create_product")
            /\ UNCHANGED sess
       ELSE IF Truthy(req.supplier_id) /\ ~get_supplier(suppliers, req.supplier_id)
       THEN /\ last' = NotFound("create_product")
            /\ UNCHANGED sess
       ELSE /\ sess' = [sess EXCEPT ![s] = [pc |-> "create_commit", req |-> req]]
            /\ UNCHANGED last
    /\ UNCHANGED <<db, now, reads>>

InsertProductOkNoForeignKey(req) == get_product_by_sku(products, req.sku) = {}

\* the INSERT's constraints: UNIQUE(sku) and the two foreign keys
InsertProductOk(req) ==
    /\ get_product_by_sku(products, req.sku) = {}
    /\ req.category_id = NULL \/ req.category_id \in DOMAIN categories
    /\ req.supplier_id = NULL \/ req.supplier_id \in DOMAIN suppliers

\* first commit: the product row; the refresh that follows opens the
\* transaction of the initial movement
CreateCommitProduct(s) ==
    /\ sess[s].pc = "create_commit"
    /\ LET req == sess[s].req IN
       IF ~InsertProductOk(req)
       THEN /\ last' = Response("create_product", 500, 0, 0, {})
            /\ sess' = [sess EXCEPT ![s] = Idle]
            /\ UNCHANGED db
       ELSE /\ products' = (nextProductId :> ProductRow(req)) @@ products
            /\ nextProductId' = nextProductId + 1
            /\ IF req.stock_quantity > 0
               THEN /\ sess' = [sess EXCEPT ![s] =
                                 [pc |-> "create_movement", pid |-> nextProductId,
                                  quantity |-> req.stock_quantity, ts |-> now]]
                    /\ last' = Response("create_product", 0, 0, 0, {})
               ELSE /\ sess' = [sess EXCEPT ![s] = Idle]
                    /\ last' = Response("create_product", 201, 0, 0, {})
            /\ UNCHANGED <<movements, catalog, nextMovementId>>
    /\ reads' = <<>>
    /\ UNCHANGED now

\* second commit: the initial_stock movement
CreateCommitMovement(s) ==
    /\ sess[s].pc = "create_movement"
    /\ LET r == sess[s] IN
       IF r.pid \notin DOMAIN products
       THEN /\ last' = Response("create_product", 500, 0, 0, {})
            /\ UNCHANGED db
       ELSE /\ movements' = movements \cup
                  {StockMovement(nextMovementId, r.pid, r.quantity, "initial_stock", r.ts)}
            /\ nextMovementId' = nextMovementId + 1
            /\ last' = Response("create_product", 201, 0, 0, {})
            /\ UNCHANGED <<products, catalog, nextProductId>>
    /\ sess' = [sess EXCEPT ![s] = Idle]
    /\ reads' = <<>>
    /\ UNCHANGED now

\* ------------------------------------------------------ update_product
UpdateFields == {"sku", "stock_quantity", "reorder_level", "category_id", "supplier_id"}

\* model_dump(exclude_unset=True)
update_data(req) == {f \in UpdateFields : req[f] # UNSET}

UpdateBegin(s, p, req) ==
    /\ sess[s].pc = "idle"
    /\ IF p \notin DOMAIN products
       THEN /\ last' = NotFound("update_product")
            /\ UNCHANGED sess
       ELSE IF /\ req.sku # UNSET /\ req.sku # NULL
               /\ get_product_by_sku(products, req.sku) \ {p} # {}
       THEN /\ last' = Response("update_product", 400, 0, 0, {})
            /\ UNCHANGED sess
       ELSE IF /\ req.category_id # UNSET /\ Truthy(req.category_id)
               /\ ~get_category(categories, req.category_id)
       THEN /\ last' = NotFound("update_product")
            /\ UNCHANGED sess
       ELSE IF /\ req.supplier_id # UNSET /\ Truthy(req.supplier_id)
               /\ ~get_supplier(suppliers, req.supplier_id)
       THEN /\ last' = NotFound("update_product")
            /\ UNCHANGED sess
       ELSE /\ sess' = [sess EXCEPT ![s] =
                         [pc |-> "update_commit", pid |-> p, req |-> req,
                          loaded |-> products[p]]]
            /\ UNCHANGED last
    /\ UNCHANGED <<db, now, reads>>

\* the columns the flush writes: those set to a value other than the loaded one
Dirty(r) == {f \in update_data(r.req) : r.req[f] # r.loaded[f]}

\* every column written back from the loaded row
UpdatedRowWhole(row, r) ==
    [f \in DOMAIN row |-> IF f \in Dirty(r) THEN r.req[f] ELSE r.loaded[f]]

UpdatedRow(row, r) ==
    [f \in DOMAIN row |-> IF f \in Dirty(r) THEN r.req[f] ELSE row[f]]

\* NOT NULL, UNIQUE(sku) and the foreign keys, on the row as written
UpdateRowOk(p, row) ==
    /\ row.sku # NULL /\ row.stock_quantity # NULL /\ row.reorder_level # NULL
    /\ get_product_by_sku(products, row.sku) \ {p} = {}
    /\ row.category_id = NULL \/ row.category_id \in DOMAIN categories
    /\ row.supplier_id = NULL \/ row.supplier_id \in DOMAIN suppliers

UpdateCommit(s) ==
    /\ sess[s].pc = "update_commit"
    /\ LET r == sess[s] IN
       IF r.pid \notin DOMAIN products
       THEN /\ last' = Response("update_product", 500, 0, 0, {})
            /\ UNCHANGED db
       ELSE IF ~UpdateRowOk(r.pid, UpdatedRow(products[r.pid], r))
       THEN /\ last' = Response("update_product", 500, 0, 0, {})
            /\ UNCHANGED db
       ELSE /\ products' = [products EXCEPT ![r.pid] = UpdatedRow(@, r)]
            /\ last' = Response("update_product", 200, 0, 0, {})
            /\ UNCHANGED <<movements, catalog, nextProductId, nextMovementId>>
    /\ sess' = [sess EXCEPT ![s] = Idle]
    /\ reads' = <<>>
    /\ UNCHANGED now

\* ------------------------------------------------------ delete_product
DeleteBegin(s, p) ==
    /\ sess[s].pc = "idle"
    /\ IF p \notin DOMAIN products
       THEN /\ last' = NotFound("delete_product")
            /\ UNCHANGED sess
       ELSE /\ sess' = [sess EXCEPT ![s] = [pc |-> "delete_commit", pid |-> p]]
            /\ UNCHANGED last
    /\ UNCHANGED <<db, now, reads>>

DeletedMovementsNone(ms, p) == ms

\* Product.stock_movements, cascade="all, delete-orphan", and the ON DELETE
\* CASCADE of stock_movements.product_id
DeletedMovements(ms, p) == ms \ MovementsOf(ms, p)

\* the product row goes, and with it (cascade) every movement of the product
DeleteCommit(s) ==
    /\ sess[s].pc = "delete_commit"
    /\ LET p == sess[s].pid IN
       /\ products' = [q \in DOMAIN products \ {p} |-> products[q]]
       /\ movements' = DeletedMovements(movements, p)
       /\ last' = Response("delete_product", 204, 0, 0, {})
    /\ sess' = [sess EXCEPT ![s] = Idle]
    /\ reads' = <<>>
    /\ UNCHANGED <<catalog, nextProductId, nextMovementId, now>>

\* ------------------------------------------------------------ categories
get_category_by_nameNone(cats, name) == {}

get_category_by_name(cats, name) == {c \in DOMAIN cats : cats[c].name = name}

\* the products a category owns through Category.products
ProductsOfCategory(prods, c) == {p \in DOMAIN prods : prods[p].category_id = c}

create_category(s, name) ==
    /\ sess[s].pc = "idle"
    /\ IF get_category_by_name(categories, name) # {}
       THEN /\ last' = Response("create_category", 400, 0, 0, {})
            /\ UNCHANGED sess
       ELSE /\ sess' = [sess EXCEPT ![s] = [pc |-> "create_category_commit", name |-> name]]
            /\ UNCHANGED last
    /\ UNCHANGED <<db, now, reads>>

\* the INSERT; UNIQUE(name) is checked by the database
create_category_commit(s) ==
    /\ sess[s].pc = "create_category_commit"
    /\ LET name == sess[s].name IN
       IF \E c \in DOMAIN categories : categories[c].name = name
       THEN /\ last' = Response("create_category", 500, 0, 0, {})
            /\ UNCHANGED db
       ELSE /\ categories' = (nextCategoryId :> [name |-> name]) @@ categories
            /\ nextCategoryId' = nextCategoryId + 1
            /\ last' = Response("create_category", 201, 0, 0, {})
            /\ UNCHANGED <<products, movements, suppliers,
                           nextProductId, nextMovementId, nextSupplierId>>
    /\ sess' = [sess EXCEPT ![s] = Idle]
    /\ reads' = <<>>
    /\ UNCHANGED now

update_category(s, c, name) ==
    /\ sess[s].pc = "idle"
    /\ IF ~get_category(categories, c)
       THEN /\ last' = NotFound("update_category")
            /\ UNCHANGED sess
       ELSE IF /\ name # UNSET /\ name # NULL
               /\ get_category_by_name(categories, name) \ {c} # {}
       THEN /\ last' = Response("update_category", 400, 0, 0, {})
            /\ UNCHANGED sess
       ELSE /\ sess' = [sess EXCEPT ![s] =
                         [pc |-> "update_category_commit", cid |-> c, name |-> name,
                          loaded |-> categories[c].name]]
            /\ UNCHANGED last
    /\ UNCHANGED <<db, now, reads>>

\* the UPDATE, when the name was set to a value other than the loaded one;
\* NOT NULL and UNIQUE(name) are checked by the database
update_category_commit(s) ==
    /\ sess[s].pc = "update_category_commit"
    /\ LET r == sess[s] IN
       IF r.name = UNSET \/ r.name = r.loaded
       THEN /\ last' = Response("update_category", 200, 0, 0, {})
            /\ UNCHANGED db
       ELSE IF \/ r.cid \notin DOMAIN categories
               \/ r.name = NULL
               \/ \E c \in DOMAIN categories \ {r.cid} : categories[c].name = r.name
       THEN /\ last' = Response("update_category", 500, 0, 0, {})
            /\ UNCHANGED db
       ELSE /\ categories' = [categories EXCEPT ![r.cid].name = r.name]
            /\ last' = Response("update_category", 200, 0, 0, {})
            /\ UNCHANGED <<products, movements, suppliers, nextProductId,
                           nextMovementId, nextCategoryId, nextSupplierId>>
    /\ sess' = [sess EXCEPT ![s] = Idle]
    /\ reads' = <<>>
    /\ UNCHANGED now

delete_category(s, c) ==
    /\ sess[s].pc = "idle"
    /\ IF ~get_category(categories, c)
       THEN /\ last' = NotFound("delete_category")
            /\ UNCHANGED sess
       ELSE /\ sess' = [sess EXCEPT ![s] = [pc |-> "delete_category_commit", cid |-> c]]
            /\ UNCHANGED last
    /\ UNCHANGED <<db, now, reads>>

\* the flush of db.delete(db_category): Category.products is declared with
\* cascade="all, delete-orphan", so the session loads the category's products
\* and deletes each of them, and with each product (Product.stock_movements,
\* cascade="all, delete-orphan") its movements; then it deletes the category
delete_category_commit(s) ==
    /\ sess[s].pc = "delete_category_commit"
    /\ LET c == sess[s].cid
           gone == ProductsOfCategory(products, c)
       IN /\ products' = [q \in DOMAIN products \ gone |-> products[q]]
          /\ movements' = {m \in movements : m.product_id \notin gone}
          /\ categories' = [d \in DOMAIN categories \ {c} |-> categories[d]]
          /\ last' = Response("delete_category", 204, 0, 0, {})
    /\ sess' = [sess EXCEPT ![s] = Idle]
    /\ reads' = <<>>
    /\ UNCHANGED <<suppliers, nextProductId, nextMovementId,
                   nextCategoryId, nextSupplierId, now>>

\* ------------------------------------------------------------- suppliers
get_supplier_by_name(sups, name) == {c \in DOMAIN sups : sups[c].name = name}

\* the products a supplier owns through Supplier.products
ProductsOfSupplier(prods, c) == {p \in DOMAIN prods : prods[p].supplier_id = c}

create_supplier(s, name) ==
    /\ sess[s].pc = "idle"
    /\ IF get_supplier_by_name(suppliers, name) # {}
       THEN /\ last' = Response("create_supplier", 400, 0, 0, {})
            /\ UNCHANGED sess
       ELSE /\ sess' = [sess EXCEPT ![s] = [pc |-> "create_supplier_commit", name |-> name]]
            /\ UNCHANGED last
    /\ UNCHANGED <<db, now, reads>>

\* the INSERT; UNIQUE(name) is checked by the database
create_supplier_commit(s) ==
    /\ sess[s].pc = "create_supplier_commit"
    /\ LET name == sess[s].name IN
       IF \E c \in DOMAIN suppliers : suppliers[c].name = name
       THEN /\ last' = Response("create_supplier", 500, 0, 0, {})
            /\ UNCHANGED db
       ELSE /\ suppliers' = (nextSupplierId :> [name |-> name]) @@ suppliers
            /\ nextSupplierId' = nextSupplierId + 1
            /\ last' = Response("create_supplier", 201, 0, 0, {})
            /\ UNCHANGED <<products, movements, categories,
                           nextProductId, nextMovementId, nextCategoryId>>
    /\ sess' = [sess EXCEPT ![s] = Idle]
    /\ reads' = <<>>
    /\ UNCHANGED now

update_supplier(s, c, name) ==
    /\ sess[s].pc = "idle"
    /\ IF ~get_supplier(suppliers, c)
       THEN /\ last' = NotFound("update_supplier")
            /\ UNCHANGED sess
       ELSE IF /\ name # UNSET /\ name # NULL
               /\ get_supplier_by_name(suppliers, name) \ {c} # {}
       THEN /\ last' = Response("update_supplier", 400, 0, 0, {})
            /\ UNCHANGED sess
       ELSE /\ sess' = [sess EXCEPT ![s] =
                         [pc |-> "update_supplier_commit", sid |-> c, name |-> name,
                          loaded |-> suppliers[c].name]]
            /\ UNCHANGED last
    /\ UNCHANGED <<db, now, reads>>

\* the UPDATE, when the name was set to a value other than the loaded one;
\* NOT NULL and UNIQUE(name) are checked by the database
update_supplier_commit(s) ==
    /\ sess[s].pc = "update_supplier_commit"
    /\ LET r == sess[s] IN
       IF r.name = UNSET \/ r.name = r.loaded
       THEN /\ last' = Response("update_supplier", 200, 0, 0, {})
            /\ UNCHANGED db
       ELSE IF \/ r.sid \notin DOMAIN suppliers
               \/ r.name = NULL
               \/ \E c \in DOMAIN suppliers \ {r.sid} : suppliers[c].name = r.name
       THEN /\ last' = Response("update_supplier", 500, 0, 0, {})
            /\ UNCHANGED db
       ELSE /\ suppliers' = [suppliers EXCEPT ![r.sid].name = r.name]
            /\ last' = Response("update_supplier", 200, 0, 0, {})
            /\ UNCHANGED <<products, movements, categories, nextProductId,
                           nextMovementId, nextCategoryId, nextSupplierId>>
    /\ sess' = [sess EXCEPT ![s] = Idle]
    /\ reads' = <<>>
    /\ UNCHANGED now

delete_supplier(s, c) ==
    /\ sess[s].pc = "idle"
    /\ IF ~get_supplier(suppliers, c)
       THEN /\ last' = NotFound("delete_supplier")
            /\ UNCHANGED sess
       ELSE /\ sess' = [sess EXCEPT ![s] = [pc |-> "delete_supplier_commit", sid |-> c]]
            /\ UNCHANGED last
    /\ UNCHANGED <<db, now, reads>>

\* the flush of db.delete(db_supplier): Supplier.products is declared with
\* cascade="all, delete-orphan", so the session loads the supplier's products
\* and deletes each of them, and with each product (Product.stock_movements,
\* cascade="all, delete-orphan") its movements; then it deletes the supplier
delete_supplier_commit(s) ==
    /\ sess[s].pc = "delete_supplier_commit"
    /\ LET c == sess[s].sid
           gone == ProductsOfSupplier(products, c)
       IN /\ products' = [q \in DOMAIN products \ gone |-> products[q]]
          /\ movements' = {m \in movements : m.product_id \notin gone}
          /\ suppliers' = [d \in DOMAIN suppliers \ {c} |-> suppliers[d]]
          /\ last' = Response("delete_supplier", 204, 0, 0, {})
    /\ sess' = [sess EXCEPT ![s] = Idle]
    /\ reads' = <<>>
    /\ UNCHANGED <<categories, nextProductId, nextMovementId,
                   nextCategoryId, nextSupplierId, now>>

\* ------------------------------------------------------------- queries
GetLowStock ==
    /\ last' = Response("low_stock", 200, 0, 0, get_low_stock_products(products))
    /\ UNCHANGED <<db, now, sess, reads>>

\* get_product_stock_history: one SELECT; the rows with equal created_at
\* come in the order the database happens to produce
GetStockHistory(p, skip, limit) ==
    /\ Len(reads) < MaxReads
    /\ \E q \in HistoryOrders(movements, p) :
          reads' = Append(reads, [pid |-> p, skip |-> skip, limit |-> limit,
                                  rows |-> Page(q, skip, limit)])
    /\ UNCHANGED <<db, now, sess, last>>

\* the endpoint: skip is Query(0, ge=0) and limit is Query(100, ge=1, le=1000);
\* a value outside its range is answered 422 before the handler body runs
MaxLimit == 1000

ValidPagination(skip, limit) == skip >= 0 /\ limit >= 1 /\ limit <= MaxLimit

QuerySkips == {-1, 0, 1}
QueryLimits == {0, 1, MaxLimit + 1}

get_stock_history(p, skip, limit) ==
    IF ValidPagination(skip, limit)
    THEN GetStockHistory(p, skip, limit)
    ELSE /\ last' = Response("stock_history", 422, 0, 0, {})
         /\ UNCHANGED <<db, now, sess, reads>>

\* ------------------------------------------------------- environment
\* the database clock, read by func.now(); it has a resolution, so two
\* transactions may read the same value
Tick ==
    /\ now < MaxTime
    /\ now' = now + 1
    /\ UNCHANGED <<db, sess, last, reads>>

\* the process or the connection dies before the commit: the open
\* transaction is rolled back
Crash(s) ==
    /\ sess[s].pc # "idle"
    /\ sess' = [sess EXCEPT ![s] = Idle]
    /\ last' = Response("crash", 500, 0, 0, {})
    /\ UNCHANGED <<db, now, reads>>

\* ------------------------------------------------------ specifications
Init ==
    /\ products = <<>>
    /\ movements = {}
    /\ categories = <<>>
    /\ suppliers = <<>>
    /\ nextProductId = 1
    /\ nextMovementId = 1
    /\ nextCategoryId = 1
    /\ nextSupplierId = 1
    /\ now = 0
    /\ sess = [s \in Sessions |-> Idle]
    /\ last = Response("none", 0, 0, 0, {})
    /\ reads = <<>>

\* request bodies that pass the schemas (stock_quantity >= 0, reorder_level >= 0)
CreateRequests ==
    [sku : Skus, stock_quantity : {0, 1}, reorder_level : {1},
     category_id : {NULL, 1}, supplier_id : {NULL}]

ConcCreateRequests ==
    [sku : {11}, stock_quantity : {0, 1}, reorder_level : {1},
     category_id : {NULL}, supplier_id : {NULL}]

ReorderCreateRequests ==
    [sku : Skus, stock_quantity : {1, 2, 3}, reorder_level : {1, 5},
     category_id : {NULL}, supplier_id : {NULL}]

UpdateRequests ==
    [sku : {UNSET}, stock_quantity : {0, 2}, reorder_level : {UNSET},
     category_id : {UNSET}, supplier_id : {UNSET}]

\* inserts the in-flight sessions will still make
PendingProducts == Cardinality({s \in Sessions : sess[s].pc = "create_commit"})

PendingMovements ==
    Cardinality({s \in Sessions : sess[s].pc \in {"adjust_commit", "create_movement"}})
       + Cardinality({s \in Sessions : sess[s].pc = "create_commit"
                                        /\ sess[s].req.stock_quantity > 0})

RoomForProduct(req) ==
    /\ nextProductId + PendingProducts <= MaxProducts
    /\ req.stock_quantity > 0 => nextMovementId + PendingMovements <= MaxMovements

RoomForMovement == nextMovementId + PendingMovements <= MaxMovements

StockInBounds == \A p \in DOMAIN products' : products'[p].stock_quantity <= MaxQty

\* requests served one at a time: products, stock and the low-stock listing
Next ==
    \/ \E s \in SeqSessions, req \in CreateRequests :
          AllIdle /\ RoomForProduct(req) /\ CreateBegin(s, req)
    \/ \E s \in SeqSessions, p \in ProductIds, req \in UpdateRequests :
          AllIdle /\ UpdateBegin(s, p, req)
    \/ \E s \in SeqSessions, p \in ProductIds : AllIdle /\ DeleteBegin(s, p)
    \/ \E s \in SeqSessions, p \in ProductIds, d \in Deltas :
          AllIdle /\ RoomForMovement /\ AdjustBegin(s, p, d)
    \/ \E s \in SeqSessions : CreateCommitProduct(s)
    \/ \E s \in SeqSessions : CreateCommitMovement(s)
    \/ \E s \in SeqSessions : UpdateCommit(s)
    \/ \E s \in SeqSessions : DeleteCommit(s)
    \/ \E s \in SeqSessions : AdjustCommit(s) /\ StockInBounds
    \/ AllIdle /\ GetLowStock

Spec == Init /\ [][Next]_vars

\* requests served concurrently, each in its own session, with failures
NextConc ==
    \/ \E s \in Sessions, req \in ConcCreateRequests :
          RoomForProduct(req) /\ CreateBegin(s, req)
    \/ \E s \in Sessions, p \in ProductIds, req \in UpdateRequests : UpdateBegin(s, p, req)
    \/ \E s \in Sessions, p \in ProductIds : DeleteBegin(s, p)
    \/ \E s \in Sessions, p \in ProductIds, d \in Deltas :
          RoomForMovement /\ AdjustBegin(s, p, d)
    \/ \E s \in Sessions : CreateCommitProduct(s)
    \/ \E s \in Sessions : CreateCommitMovement(s)
    \/ \E s \in Sessions : UpdateCommit(s)
    \/ \E s \in Sessions : DeleteCommit(s)
    \/ \E s \in Sessions : AdjustCommit(s) /\ StockInBounds
    \/ \E s \in Sessions : Crash(s)

SpecConc == Init /\ [][NextConc]_vars

\* concurrent adjustments only
NextAdjust ==
    \/ \E s \in Sessions, req \in ConcCreateRequests :
          RoomForProduct(req) /\ CreateBegin(s, req)
    \/ \E s \in Sessions, p \in ProductIds, d \in Deltas :
          RoomForMovement /\ AdjustBegin(s, p, d)
    \/ \E s \in Sessions : CreateCommitProduct(s)
    \/ \E s \in Sessions : CreateCommitMovement(s)
    \/ \E s \in Sessions : AdjustCommit(s) /\ StockInBounds

SpecAdjust == Init /\ [][NextAdjust]_vars

\* creation and deletion only, with failures
NextCreate ==
    \/ \E s \in Sessions, req \in CreateRequests :
          RoomForProduct(req) /\ CreateBegin(s, req)
    \/ \E s \in Sessions, p \in ProductIds : DeleteBegin(s, p)
    \/ \E s \in Sessions : CreateCommitProduct(s)
    \/ \E s \in Sessions : CreateCommitMovement(s)
    \/ \E s \in Sessions : DeleteCommit(s)
    \/ \E s \in Sessions : Crash(s)

SpecCreate == Init /\ [][NextCreate]_vars

\* the reorder evaluator, requests served one at a time
NextReorder ==
    \/ \E s \in SeqSessions, req \in ReorderCreateRequests :
          AllIdle /\ RoomForProduct(req) /\ CreateBegin(s, req)
    \/ \E s \in SeqSessions, p \in ProductIds, d \in Deltas :
          AllIdle /\ RoomForMovement /\ AdjustBegin(s, p, d)
    \/ \E s \in SeqSessions : CreateCommitProduct(s)
    \/ \E s \in SeqSessions : CreateCommitMovement(s)
    \/ \E s \in SeqSessions : AdjustCommit(s) /\ StockInBounds
    \/ AllIdle /\ GetLowStock

SpecReorder == Init /\ [][NextReorder]_vars

\* the ledger and its history queries, requests served one at a time
NextHistory ==
    \/ \E s \in SeqSessions, req \in CreateRequests :
          AllIdle /\ RoomForProduct(req) /\ CreateBegin(s, req)
    \/ \E s \in SeqSessions, p \in ProductIds, d \in Deltas :
          AllIdle /\ RoomForMovement /\ AdjustBegin(s, p, d)
    \/ \E s \in SeqSessions : CreateCommitProduct(s)
    \/ \E s \in SeqSessions : CreateCommitMovement(s)
    \/ \E s \in SeqSessions : AdjustCommit(s) /\ StockInBounds
    \/ \E p \in ProductIds, skip \in Skips, limit \in Limits :
          AllIdle /\ GetStockHistory(p, skip, limit)
    \/ Tick

SpecHistory == Init /\ [][NextHistory]_vars

\* the stock-history endpoint with any query parameters, requests served one
\* at a time
NextQuery ==
    \/ \E s \in SeqSessions, req \in ConcCreateRequests :
          AllIdle /\ RoomForProduct(req) /\ CreateBegin(s, req)
    \/ \E s \in SeqSessions, p \in ProductIds : AllIdle /\ DeleteBegin(s, p)
    \/ \E s \in SeqSessions, p \in ProductIds, d \in Deltas :
          AllIdle /\ RoomForMovement /\ AdjustBegin(s, p, d)
    \/ \E s \in SeqSessions : CreateCommitProduct(s)
    \/ \E s \in SeqSessions : CreateCommitMovement(s)
    \/ \E s \in SeqSessions : DeleteCommit(s)
    \/ \E s \in SeqSessions : AdjustCommit(s) /\ StockInBounds
    \/ \E p \in ProductIds, skip \in QuerySkips, limit \in QueryLimits :
          AllIdle /\ get_stock_history(p, skip, limit)

SpecQuery == Init /\ [][NextQuery]_vars

\* products with their categories and suppliers, requests served one at a time
CatalogCreateRequests ==
    [sku : Skus, stock_quantity : {1}, reorder_level : {1},
     category_id : {NULL, 0, 1}, supplier_id : {NULL, 1}]

UpdateNames == Names \cup {UNSET, NULL}

RoomForCategory == nextCategoryId <= MaxCategories

RoomForSupplier == nextSupplierId <= MaxSuppliers

NextCatalog ==
    \/ \E s \in SeqSessions, req \in CatalogCreateRequests :
          AllIdle /\ RoomForProduct(req) /\ CreateBegin(s, req)
    \/ \E s \in SeqSessions : CreateCommitProduct(s)
    \/ \E s \in SeqSessions : CreateCommitMovement(s)
    \/ \E s \in SeqSessions, name \in Names :
          AllIdle /\ RoomForCategory /\ create_category(s, name)
    \/ \E s \in SeqSessions, c \in CategoryIds, name \in UpdateNames :
          AllIdle /\ update_category(s, c, name)
    \/ \E s \in SeqSessions, c \in CategoryIds : AllIdle /\ delete_category(s, c)
    \/ \E s \in SeqSessions : create_category_commit(s)
    \/ \E s \in SeqSessions : update_category_commit(s)
    \/ \E s \in SeqSessions : delete_category_commit(s)
    \/ \E s \in SeqSessions, name \in Names :
          AllIdle /\ RoomForSupplier /\ create_supplier(s, name)
    \/ \E s \in SeqSessions, c \in SupplierIds, name \in UpdateNames :
          AllIdle /\ update_supplier(s, c, name)
    \/ \E s \in SeqSessions, c \in SupplierIds : AllIdle /\ delete_supplier(s, c)
    \/ \E s \in SeqSessions : create_supplier_commit(s)
    \/ \E s \in SeqSessions : update_supplier_commit(s)
    \/ \E s \in SeqSessions : delete_supplier_commit(s)

SpecCatalog == Init /\ [][NextCatalog]_vars

\* categories and suppliers alone, requests served one at a time
NextNames ==
    \/ \E s \in SeqSessions, name \in Names :
          AllIdle /\ RoomForCategory /\ create_category(s, name)
    \/ \E s \in SeqSessions, c \in CategoryIds, name \in UpdateNames :
          AllIdle /\ update_category(s, c, name)
    \/ \E s \in SeqSessions, c \in CategoryIds : AllIdle /\ delete_category(s, c)
    \/ \E s \in SeqSessions : create_category_commit(s)
    \/ \E s \in SeqSessions : update_category_commit(s)
    \/ \E s \in SeqSessions : delete_category_commit(s)
    \/ \E s \in SeqSessions, name \in Names :
          AllIdle /\ RoomForSupplier /\ create_supplier(s, name)
    \/ \E s \in SeqSessions, c \in SupplierIds, name \in UpdateNames :
          AllIdle /\ update_supplier(s, c, name)
    \/ \E s \in SeqSessions, c \in SupplierIds : AllIdle /\ delete_supplier(s, c)
    \/ \E s \in SeqSessions : create_supplier_commit(s)
    \/ \E s \in SeqSessions : update_supplier_commit(s)
    \/ \E s \in SeqSessions : delete_supplier_commit(s)

SpecNames == Init /\ [][NextNames]_vars

\* products and their ledgers: creation, adjustment and deletion served
\* concurrently
LedgerCreateRequests ==
    [sku : Skus, stock_quantity : {1}, reorder_level : {1},
     category_id : {NULL}, supplier_id : {NULL}]

NextLedger ==
    \/ \E s \in Sessions, req \in LedgerCreateRequests :
          RoomForProduct(req) /\ CreateBegin(s, req)
    \/ \E s \in Sessions, p \in ProductIds : DeleteBegin(s, p)
    \/ \E s \in Sessions, p \in ProductIds, d \in Deltas :
          RoomForMovement /\ AdjustBegin(s, p, d)
    \/ \E s \in Sessions : CreateCommitProduct(s)
    \/ \E s \in Sessions : CreateCommitMovement(s)
    \/ \E s \in Sessions : DeleteCommit(s)
    \/ \E s \in Sessions : AdjustCommit(s) /\ StockInBounds

SpecLedger == Init /\ [][NextLedger]_vars

\* the worked scenario: a product created with stock 10 and reorder level 5,
\* adjusted by +20, -5 and -30, requests served one at a time
ScenarioMovements == 4

ScenarioCreateRequests ==
    [sku : Skus, stock_quantity : {10}, reorder_level : {5},
     category_id : {NULL}, supplier_id : {NULL}]

ScenarioDeltas == {20, -5, -30}

NextScenario ==
    \/ \E s \in SeqSessions, req \in ScenarioCreateRequests :
          AllIdle /\ nextProductId <= MaxProducts /\ nextMovementId <= ScenarioMovements
             /\ CreateBegin(s, req)
    \/ \E s \in SeqSessions, p \in ProductIds, d \in ScenarioDeltas :
          AllIdle /\ nextMovementId <= ScenarioMovements /\ AdjustBegin(s, p, d)
    \/ \E s \in SeqSessions : CreateCommitProduct(s)
    \/ \E s \in SeqSessions : CreateCommitMovement(s)
    \/ \E s \in SeqSessions : AdjustCommit(s)

SpecScenario == Init /\ [][NextScenario]_vars

\* SKUs: products created and re-labelled concurrently
SkuCreateRequests ==
    [sku : Skus, stock_quantity : {0}, reorder_level : {1},
     category_id : {NULL}, supplier_id : {NULL}]

SkuUpdateRequests ==
    [sku : Skus, stock_quantity : {UNSET}, reorder_level : {UNSET},
     category_id : {UNSET}, supplier_id : {UNSET}]

NextSku ==
    \/ \E s \in Sessions, req \in SkuCreateRequests :
          RoomForProduct(req) /\ CreateBegin(s, req)
    \/ \E s \in Sessions, p \in ProductIds, req \in SkuUpdateRequests :
          UpdateBegin(s, p, req)
    \/ \E s \in Sessions : CreateCommitProduct(s)
    \/ \E s \in Sessions : UpdateCommit(s)

SpecSku == Init /\ [][NextSku]_vars

\* update_product with any subset of its fields, served concurrently with
\* creations and other updates
FieldUpdateRequests ==
    [sku : {UNSET, 12}, stock_quantity : {UNSET}, reorder_level : {UNSET, 3},
     category_id : {UNSET}, supplier_id : {UNSET}]
       \cup [sku : {UNSET}, stock_quantity : {2}, reorder_level : {UNSET},
              category_id : {UNSET, 1}, supplier_id : {UNSET}]

NextUpdate ==
    \/ \E s \in Sessions, req \in LedgerCreateRequests :
          RoomForProduct(req) /\ CreateBegin(s, req)
    \/ \E s \in Sessions, p \in ProductIds, req \in FieldUpdateRequests :
          UpdateBegin(s, p, req)
    \/ \E s \in Sessions : CreateCommitProduct(s)
    \/ \E s \in Sessions : CreateCommitMovement(s)
    \/ \E s \in Sessions : UpdateCommit(s)

SpecUpdate == Init /\ [][NextUpdate]_vars

\* adjustments of several products, served concurrently
IndependentCreateRequests ==
    [sku : Skus, stock_quantity : {0, 1}, reorder_level : {1},
     category_id : {NULL}, supplier_id : {NULL}]

NextIndependent ==
    \/ \E s \in Sessions, req \in IndependentCreateRequests :
          RoomForProduct(req) /\ CreateBegin(s, req)
    \/ \E s \in Sessions, p \in ProductIds, d \in Deltas :
          RoomForMovement /\ AdjustBegin(s, p, d)
    \/ \E s \in Sessions : CreateCommitProduct(s)
    \/ \E s \in Sessions : CreateCommitMovement(s)
    \/ \E s \in Sessions : AdjustCommit(s) /\ StockInBounds

SpecIndependent == Init /\ [][NextIndependent]_vars

\* create_product, adjust_product_stock and delete_product only, served one
\* at a time
NextRunning ==
    \/ \E s \in SeqSessions, req \in IndependentCreateRequests :
          AllIdle /\ RoomForProduct(req) /\ CreateBegin(s, req)
    \/ \E s \in SeqSessions, p \in ProductIds : AllIdle /\ DeleteBegin(s, p)
    \/ \E s \in SeqSessions, p \in ProductIds, d \in Deltas :
          AllIdle /\ RoomForMovement /\ AdjustBegin(s, p, d)
    \/ \E s \in SeqSessions : CreateCommitProduct(s)
    \/ \E s \in SeqSessions : CreateCommitMovement(s)
    \/ \E s \in SeqSessions : DeleteCommit(s)
    \/ \E s \in SeqSessions : AdjustCommit(s) /\ StockInBounds

SpecRunning == Init /\ [][NextRunning]_vars

\* the references of products to categories and suppliers, requests served
\* concurrently
RefCreateRequests ==
    [sku : {11}, stock_quantity : {0}, reorder_level : {1},
     category_id : {NULL, 0, 1}, supplier_id : {NULL}]
       \cup [sku : {11}, stock_quantity : {0}, reorder_level : {1},
              category_id : {NULL}, supplier_id : {0, 1}]

RefUpdateRequests ==
    [sku : {UNSET}, stock_quantity : {UNSET}, reorder_level : {UNSET},
     category_id : {0, 1}, supplier_id : {UNSET}]
       \cup [sku : {UNSET}, stock_quantity : {UNSET}, reorder_level : {UNSET},
              category_id : {UNSET}, supplier_id : {0, 1}]

RefNames == {21}

NextReferences ==
    \/ \E s \in Sessions, req \in RefCreateRequests :
          RoomForProduct(req) /\ CreateBegin(s, req)
    \/ \E s \in Sessions, p \in ProductIds, req \in RefUpdateRequests :
          UpdateBegin(s, p, req)
    \/ \E s \in Sessions : CreateCommitProduct(s)
    \/ \E s \in Sessions : UpdateCommit(s)
    \/ \E s \in Sessions, name \in RefNames :
          nextCategoryId + Cardinality({t \in Sessions : sess[t].pc = "create_category_commit"})
             <= MaxCategories
          /\ create_category(s, name)
    \/ \E s \in Sessions, c \in CategoryIds : delete_category(s, c)
    \/ \E s \in Sessions : create_category_commit(s)
    \/ \E s \in Sessions : delete_category_commit(s)
    \/ \E s \in Sessions, name \in RefNames :
          nextSupplierId + Cardinality({t \in Sessions : sess[t].pc = "create_supplier_commit"})
             <= MaxSuppliers
          /\ create_supplier(s, name)
    \/ \E s \in Sessions, c \in SupplierIds : delete_supplier(s, c)
    \/ \E s \in Sessions : create_supplier_commit(s)
    \/ \E s \in Sessions : delete_supplier_commit(s)

SpecReferences == Init /\ [][NextReferences]_vars

\* ---------------------------------------------------------------- claims
\* the movement inserted last (ids are handed out in commit order)
NewestMovement == CHOOSE m \in movements : \A k \in movements : k.id <= m.id

\* the step is the commit of session s's adjustment, and it succeeded
AdjustApplied(s) == AdjustCommit(s) /\ last'.op = "adjust" /\ last'.status = 200

\* C1: a successful adjustment of product P by d leaves P.stock_quantity =
\* old + d and adds exactly one movement of P, with quantity d; a history
\* query of P from offset 0 that follows it returns that movement first.
C1_AdjustThenNewestFirst ==
    [][/\ \A s \in Sessions :
            AdjustApplied(s) =>
               LET r == sess[s] IN
               /\ products'[r.pid].stock_quantity = products[r.pid].stock_quantity + r.delta
               /\ \E m \in movements' \ movements :
                     /\ movements' = movements \cup {m}
                     /\ m.product_id = r.pid
                     /\ m.quantity = r.delta
       /\ \A p \in ProductIds, limit \in Limits :
            (/\ GetStockHistory(p, 0, limit)
             /\ last.op = "adjust" /\ last.status = 200
             /\ NewestMovement.product_id = p)
               => reads'[Len(reads')].rows[1] = NewestMovement
      ]_vars

\* C2: an adjustment of an existing product that would make its quantity
\* negative is answered 400 and changes nothing: the products, the movements
\* of every product, and no write is left pending in the session.
C2_InsufficientStockNoEffect ==
    [][\A s \in Sessions, p \in ProductIds, d \in Deltas :
          (/\ AdjustBegin(s, p, d)
           /\ p \in DOMAIN products
           /\ products[p].stock_quantity + d < 0)
             => /\ last'.op = "adjust" /\ last'.status = 400
                /\ products' = products
                /\ movements' = movements
                /\ nextMovementId' = nextMovementId
                /\ sess' = sess
      ]_vars

\* a removal was refused on a product with no stock, next to a product with a
\* ledger
C2_Witness ==
    /\ last.op = "adjust" /\ last.status = 400
    /\ AllIdle
    /\ last.qty = 0
    /\ Cardinality(DOMAIN products) = 2
    /\ movements # {}

\* C3: every stored product has stock_quantity >= 0, in every state reached
\* by any interleaving of create, update, adjust and delete requests.
C3_StockNonNegative ==
    \A p \in DOMAIN products : products[p].stock_quantity >= 0

\* stock driven to 0 by a removal while another adjustment of the same
\* product, begun from a different quantity, is still to commit
C3_Witness ==
    \E p \in DOMAIN products, s \in Sessions :
       /\ products[p].stock_quantity = 0
       /\ \E m \in MovementsOf(movements, p) : m.quantity < 0
       /\ sess[s].pc = "adjust_commit" /\ sess[s].pid = p
       /\ sess[s].loaded # products[p].stock_quantity

\* C4: every change of a stored product's stock_quantity, whichever
\* operation makes it, comes with exactly one new movement of that product.
C4_QuantityChangeHasMovement ==
    [][\A p \in DOMAIN products \cap DOMAIN products' :
          products'[p].stock_quantity # products[p].stock_quantity
             => /\ MovementsOf(movements, p) \subseteq MovementsOf(movements', p)
                /\ Cardinality(MovementsOf(movements', p))
                      = Cardinality(MovementsOf(movements, p)) + 1
      ]_vars

\* C5: the commit of an adjustment writes the quantity and the movement
\* together or not at all, and a failure before the commit writes nothing.
C5_AdjustAtomic ==
    [][\A s \in Sessions :
          /\ AdjustCommit(s) =>
               LET r == sess[s] IN
               \/ /\ last'.status = 500
                  /\ UNCHANGED db
               \/ /\ last'.status = 200
                  /\ r.delta # 0 => products'[r.pid].stock_quantity = r.nq
                  /\ r.delta = 0 => products'[r.pid].stock_quantity
                                       = products[r.pid].stock_quantity
                  /\ \E m \in movements' \ movements :
                        /\ movements' = movements \cup {m}
                        /\ m.product_id = r.pid
                        /\ m.quantity = r.delta
          /\ (Crash(s) /\ sess[s].pc = "adjust_commit") => UNCHANGED db
      ]_vars

C5_Witness ==
    /\ last.op = "adjust" /\ last.status = 200
    /\ movements # {}
    /\ NewestMovement.movement_type = "stock_in"
    /\ \E s \in Sessions : sess[s].pc = "adjust_commit"

\* C6: no lost update: every successful adjustment changes the stored
\* quantity by exactly its delta, so that two concurrent adjustments d1 and
\* d2 of one product end at initial + d1 + d2.
C6_NoLostUpdate ==
    [][\A s \in Sessions :
          AdjustApplied(s) =>
             products'[sess[s].pid].stock_quantity
                = products[sess[s].pid].stock_quantity + sess[s].delta
      ]_vars

\* C7: a product created with quantity q > 0 has exactly one initial_stock
\* movement, of quantity q, in every committed state in which no request is
\* still creating it; a product created with quantity 0 has none.
C7_InitialMovementAtomic ==
    \A p \in DOMAIN products :
       LET initial == {m \in MovementsOf(movements, p) : m.movement_type = "initial_stock"}
           creating == \E s \in Sessions : sess[s].pc = "create_movement" /\ sess[s].pid = p
       IN /\ (products[p].stock_quantity > 0 /\ ~creating)
                => \E m \in initial : initial = {m} /\ m.quantity = products[p].stock_quantity
          /\ products[p].stock_quantity = 0 => initial = {}

\* C8: the low-stock listing is exactly the set of stored products with
\* stock_quantity <= reorder_level, which is the set of those whose
\* needs_reorder is true: a product at its reorder level is listed, one unit
\* above it is not, and a product created with stock 3 and reorder level 5
\* is listed.
C8_LowStockExact ==
    last.op = "low_stock" =>
       /\ last.ids \subseteq DOMAIN products
       /\ \A p \in DOMAIN products :
            /\ p \in last.ids <=> needs_reorder(products[p])
            /\ products[p].stock_quantity = products[p].reorder_level => p \in last.ids
            /\ products[p].stock_quantity = products[p].reorder_level + 1 => p \notin last.ids
            /\ (products[p].stock_quantity = 3 /\ products[p].reorder_level = 5)
                  => p \in last.ids

\* the listing holds a product created with stock 3 and reorder level 5 and
\* not yet adjusted, and leaves out one that is one unit above its level
C8_Witness ==
    /\ last.op = "low_stock"
    /\ \E p \in last.ids :
          /\ products[p].stock_quantity = 3 /\ products[p].reorder_level = 5
          /\ \A m \in MovementsOf(movements, p) : m.movement_type = "initial_stock"
    /\ \E p \in DOMAIN products \ last.ids :
          products[p].stock_quantity = products[p].reorder_level + 1

\* C9: with no write in between, the pages history(P, 0, N) and
\* history(P, N, M) are disjoint and their concatenation is
\* history(P, 0, N + M).
C9_PaginationStable ==
    \A i, j \in 1..Len(reads) :
       LET a == reads[i]
           b == reads[j]
       IN (i # j /\ a.pid = b.pid /\ a.skip = 0 /\ b.skip = a.limit) =>
            /\ \A k \in 1..Len(a.rows), l \in 1..Len(b.rows) : a.rows[k] # b.rows[l]
            /\ \A h \in 1..Len(reads) :
                 (reads[h].pid = a.pid /\ reads[h].skip = 0
                     /\ reads[h].limit = a.limit + b.limit)
                    => reads[h].rows = a.rows \o b.rows

\* C10: a history query of P returns only movements of P, newest first: the
\* creation timestamps never increase along the rows, and a movement
\* appended by a later operation never comes after one appended earlier.
C10_HistoryNewestFirst ==
    \A i \in 1..Len(reads) :
       LET r == reads[i] IN
       /\ \A k \in 1..Len(r.rows) : r.rows[k].product_id = r.pid
       /\ \A k, l \in 1..Len(r.rows) :
            k < l => /\ r.rows[k].created_at >= r.rows[l].created_at
                     /\ r.rows[k].id > r.rows[l].id

Clamp(x, lo, hi) == Max(lo, Min(x, hi))

\* C11: a stock-history request whose limit is outside 1..1000 or whose skip
\* is negative is answered with the rows for the clamped values (limit into
\* 1..1000, skip to 0 or more), not with an error.
C11_PaginationClamped ==
    [][\A p \in ProductIds, skip \in QuerySkips, limit \in QueryLimits :
          (/\ get_stock_history(p, skip, limit)
           /\ ~ValidPagination(skip, limit)
           /\ Len(reads) < MaxReads)
             => /\ Len(reads') = Len(reads) + 1
                /\ \E q \in HistoryOrders(movements, p) :
                      reads'[Len(reads')].rows
                         = Page(q, Max(0, skip), Clamp(limit, 1, MaxLimit))
      ]_vars

\* C12: a stock-history request for a product id that is not stored (never
\* created, or deleted) is answered 404 and returns no list.
C12_HistoryOfMissingProduct ==
    [][\A p \in ProductIds, skip \in QuerySkips, limit \in QueryLimits :
          (/\ get_stock_history(p, skip, limit)
           /\ ValidPagination(skip, limit)
           /\ p \notin DOMAIN products)
             => /\ last'.op = "stock_history" /\ last'.status = 404
                /\ reads' = reads
      ]_vars

\* C13: deleting a category or a supplier deletes no product: every product
\* is still stored afterwards, with category_id (supplier_id) null if it
\* referenced the deleted row and every other field, and its movements,
\* unchanged.
C13_DeleteCategoryKeepsProducts ==
    [][\A s \in Sessions :
          /\ delete_category_commit(s) =>
               \A p \in DOMAIN products :
                  /\ p \in DOMAIN products'
                  /\ products'[p] = IF products[p].category_id = sess[s].cid
                                    THEN [products[p] EXCEPT !.category_id = NULL]
                                    ELSE products[p]
                  /\ MovementsOf(movements', p) = MovementsOf(movements, p)
          /\ delete_supplier_commit(s) =>
               \A p \in DOMAIN products :
                  /\ p \in DOMAIN products'
                  /\ products'[p] = IF products[p].supplier_id = sess[s].sid
                                    THEN [products[p] EXCEPT !.supplier_id = NULL]
                                    ELSE products[p]
                  /\ MovementsOf(movements', p) = MovementsOf(movements, p)
      ]_vars

\* C14: delete_product(P) removes P and every movement of P and nothing
\* else: afterwards P is not stored, no movement references P, and every other
\* product, its movements, the categories and the suppliers are unchanged;
\* and in every state each movement references a stored product.
C14_DeleteProductCascades ==
    [][/\ \A s \in Sessions :
            DeleteCommit(s) =>
               LET p == sess[s].pid IN
               /\ p \notin DOMAIN products'
               /\ MovementsOf(movements', p) = {}
               /\ \A q \in DOMAIN products \ {p} :
                     /\ q \in DOMAIN products'
                     /\ products'[q] = products[q]
                     /\ MovementsOf(movements', q) = MovementsOf(movements, q)
               /\ UNCHANGED catalog
       /\ \A m \in movements' : m.product_id \in DOMAIN products'
      ]_vars

\* a product with a movement was deleted and its movement went with it, while
\* another product keeps its own
C14_Witness ==
    /\ last.op = "delete_product" /\ last.status = 204
    /\ \E i \in 1..(nextMovementId - 1) : \A m \in movements : m.id # i
    /\ \E q \in DOMAIN products : MovementsOf(movements, q) # {}

\* C15: the ledger is append-only: across every step, each movement of a
\* product that is still stored after the step is still in the ledger with
\* its quantity, movement_type, product_id and created_at unchanged.
C15_LedgerAppendOnly ==
    [][\A m \in movements :
          m.product_id \in DOMAIN products' =>
             /\ m \in movements'
             /\ \A k \in movements' : k.id = m.id => k = m
      ]_vars

\* an adjustment was appended to the ledger of a product that already had a
\* movement
C15_Witness ==
    \E m, k \in movements :
       /\ m.product_id = k.product_id /\ m.id < k.id
       /\ m.movement_type = "initial_stock"
       /\ k.movement_type \in {"stock_in", "stock_out"}
       /\ m.product_id \in DOMAIN products

\* the movements of product p in the order they were inserted
LedgerOf(ms, p) ==
    LET S == MovementsOf(ms, p)
        n == Cardinality(S)
    IN CHOOSE q \in [1..n -> S] : \A i, j \in 1..n : i < j => q[i].id < q[j].id

LedgerQuantities(ms, p) ==
    LET L == LedgerOf(ms, p) IN [i \in 1..Len(L) |-> L[i].quantity]

\* C16: a product created with stock 10 and reorder level 5 has quantity 30
\* and a movement {20, stock_in} after adjust +20, quantity 25 and a movement
\* {-5, stock_out} after adjust -5; adjust -30 is then refused (400), the
\* quantity stays 25 and the ledger keeps its 3 entries.
C16_ScenarioTrace ==
    [][\A p \in DOMAIN products' :
          LET L == LedgerOf(movements', p)
              Q == LedgerQuantities(movements', p)
          IN /\ Q = <<10>> =>
                  /\ products'[p].stock_quantity = 10
                  /\ L[1].movement_type = "initial_stock"
             /\ Q = <<10, 20>> =>
                  /\ products'[p].stock_quantity = 30
                  /\ L[2].movement_type = "stock_in"
             /\ Q = <<10, 20, -5>> =>
                  /\ products'[p].stock_quantity = 25
                  /\ L[3].movement_type = "stock_out"
                  /\ Cardinality(MovementsOf(movements', p)) = 3
             /\ \A s \in Sessions :
                  (/\ p \in DOMAIN products
                   /\ LedgerQuantities(movements, p) = <<10, 20, -5>>
                   /\ AdjustBegin(s, p, -30))
                     => /\ last' = Response("adjust", 400, 25, 30, {})
                        /\ UNCHANGED db
                        /\ sess' = sess
      ]_vars

\* the scenario ran to its end: the removal of 30 was refused on the product
\* whose ledger is 10, +20, -5
C16_Witness ==
    /\ last = Response("adjust", 400, 25, 30, {})
    /\ AllIdle
    /\ \E p \in DOMAIN products :
          /\ products[p].reorder_level = 5
          /\ products[p].stock_quantity = 25
          /\ LedgerQuantities(movements, p) = <<10, 20, -5>>

\* C17: an adjustment of a product id that is not stored is answered 404 and
\* changes nothing: no product, no movement, and no write is left pending.
C17_AdjustMissingProduct ==
    [][\A s \in Sessions, p \in ProductIds, d \in Deltas :
          (AdjustBegin(s, p, d) /\ p \notin DOMAIN products)
             => /\ last'.op = "adjust" /\ last'.status = 404
                /\ UNCHANGED db
                /\ sess' = sess
      ]_vars

\* an adjustment was refused for a missing id while another product, with its
\* ledger, is stored
C17_Witness ==
    /\ last.op = "adjust" /\ last.status = 404
    /\ AllIdle
    /\ products # <<>>
    /\ movements # {}

\* another stored product than p holds the sku
SkuHeldByOther(prods, sku, p) == get_product_by_sku(prods, sku) \ {p} # {}

\* C18: no two stored products ever share an sku, whatever the interleaving
\* of create_product and update_product; and a create or an update that would
\* give a product an sku held by a different product is answered 400 and
\* changes nothing.
C18_SkuUnique ==
    [][/\ \A p, q \in DOMAIN products' :
            p # q => products'[p].sku # products'[q].sku
       /\ \A s \in Sessions, req \in SkuCreateRequests :
            (CreateBegin(s, req) /\ SkuHeldByOther(products, req.sku, 0))
               => /\ last'.op = "create_product" /\ last'.status = 400
                  /\ UNCHANGED db /\ sess' = sess
       /\ \A s \in Sessions, p \in DOMAIN products, req \in SkuUpdateRequests :
            (UpdateBegin(s, p, req) /\ SkuHeldByOther(products, req.sku, p))
               => /\ last'.op = "update_product" /\ last'.status = 400
                  /\ UNCHANGED db /\ sess' = sess
       /\ \A s \in Sessions :
            (CreateCommitProduct(s) /\ SkuHeldByOther(products, sess[s].req.sku, 0))
               => /\ last'.op = "create_product" /\ last'.status = 400
                  /\ UNCHANGED db
       /\ \A s \in Sessions :
            (/\ UpdateCommit(s)
             /\ sess[s].pid \in DOMAIN products
             /\ "sku" \in Dirty(sess[s])
             /\ SkuHeldByOther(products, sess[s].req.sku, sess[s].pid))
               => /\ last'.op = "update_product" /\ last'.status = 400
                  /\ UNCHANGED db
      ]_vars

\* C19: no two categories and no two suppliers share a name after any
\* sequence of create and update calls; a create or a rename to a name held by
\* another category (supplier) is answered 400 and changes nothing, and an
\* update that keeps the entity's own name succeeds.
C19_NamesUnique ==
    [][/\ \A c, d \in DOMAIN categories' :
            c # d => categories'[c].name # categories'[d].name
       /\ \A c, d \in DOMAIN suppliers' :
            c # d => suppliers'[c].name # suppliers'[d].name
       /\ \A s \in Sessions, name \in Names :
            /\ (/\ create_category(s, name)
                /\ \E c \in DOMAIN categories : categories[c].name = name)
                  => /\ last'.op = "create_category" /\ last'.status = 400
                     /\ UNCHANGED db /\ sess' = sess
            /\ (/\ create_supplier(s, name)
                /\ \E c \in DOMAIN suppliers : suppliers[c].name = name)
                  => /\ last'.op = "create_supplier" /\ last'.status = 400
                     /\ UNCHANGED db /\ sess' = sess
            /\ \A c \in DOMAIN categories :
                 (/\ update_category(s, c, name)
                  /\ \E d \in DOMAIN categories \ {c} : categories[d].name = name)
                    => /\ last'.op = "update_category" /\ last'.status = 400
                       /\ UNCHANGED db /\ sess' = sess
            /\ \A c \in DOMAIN suppliers :
                 (/\ update_supplier(s, c, name)
                  /\ \E d \in DOMAIN suppliers \ {c} : suppliers[d].name = name)
                    => /\ last'.op = "update_supplier" /\ last'.status = 400
                       /\ UNCHANGED db /\ sess' = sess
       /\ \A s \in Sessions :
            /\ (update_category_commit(s) /\ sess[s].name = sess[s].loaded)
                  => /\ last'.op = "update_category" /\ last'.status = 200
                     /\ UNCHANGED db
            /\ (update_supplier_commit(s) /\ sess[s].name = sess[s].loaded)
                  => /\ last'.op = "update_supplier" /\ last'.status = 200
                     /\ UNCHANGED db
      ]_vars

\* a rename to the other supplier's name was refused, with two categories and
\* two suppliers stored
C19_Witness ==
    /\ last.op = "update_supplier" /\ last.status = 400
    /\ AllIdle
    /\ Cardinality(DOMAIN categories) = 2
    /\ Cardinality(DOMAIN suppliers) = 2

\* C20: create_product with a category_id (or supplier_id) that is not the id
\* of a stored category (supplier) is answered 404 and persists nothing: no
\* product, no movement, and no insert is left pending.
C20_CreateWithMissingReference ==
    [][\A s \in Sessions, req \in CatalogCreateRequests :
          (/\ CreateBegin(s, req)
           /\ get_product_by_sku(products, req.sku) = {}
           /\ \/ req.category_id # NULL /\ req.category_id \notin DOMAIN categories
              \/ req.supplier_id # NULL /\ req.supplier_id \notin DOMAIN suppliers)
             => /\ last'.op = "create_product" /\ last'.status = 404
                /\ UNCHANGED db
                /\ sess' = sess
      ]_vars

C22_MovementTypeBySign ==
    [][/\ \A s \in Sessions :
            AdjustApplied(s) =>
               LET r == sess[s] IN
               \E m \in movements' \ movements :
                  /\ movements' = movements \cup {m}
                  /\ m.product_id = r.pid /\ m.quantity = r.delta
                  /\ m.movement_type = "stock_in" <=> r.delta > 0
                  /\ m.movement_type = "stock_out" <=> r.delta <= 0
                  /\ r.delta = 0 =>
                        /\ products'[r.pid].stock_quantity = products[r.pid].stock_quantity
                        /\ m.quantity = 0 /\ m.movement_type = "stock_out"
       /\ \A s \in Sessions, p \in DOMAIN products :
            AdjustBegin(s, p, 0) => sess'[s].pc = "adjust_commit"
      ]_vars

\* an adjustment by 0 was applied to a product that holds stock
C22_Witness ==
    /\ last.op = "adjust" /\ last.status = 200 /\ last.qty = 1
    /\ movements # {}
    /\ NewestMovement.quantity = 0
    /\ NewestMovement.movement_type = "stock_out"

\* C23: the 400 of an adjustment that would make the quantity negative
\* carries the product's stored, unchanged stock_quantity and the magnitude
\* |delta| of the removal, for every product and every such delta.
C23_InsufficientStockDetail ==
    [][\A s \in Sessions, p \in DOMAIN products, d \in ScenarioDeltas :
          (AdjustBegin(s, p, d) /\ products[p].stock_quantity + d < 0)
             => /\ last'.op = "adjust" /\ last'.status = 400
                /\ last'.qty = products[p].stock_quantity
                /\ last'.qty = products'[p].stock_quantity
                /\ last'.req = (IF d < 0 THEN 0 - d ELSE d)
      ]_vars

\* a removal of 30 was refused on a product brought down to 5
C23_Witness ==
    /\ last = Response("adjust", 400, 5, 30, {})
    /\ \E p \in DOMAIN products : products[p].stock_quantity = 5

\* the quantity and type of each movement of product p, in insertion order
LedgerEntries(ms, p) ==
    LET L == LedgerOf(ms, p)
    IN [i \in 1..Len(L) |-> <<L[i].quantity, L[i].movement_type>>]

\* the tables after the commit of adjustment a and then of adjustment b
AdjustedBoth(a, b) ==
    [products |-> AdjustedProducts(AdjustedProducts(products, a), b),
     movements |-> AdjustedMovements(AdjustedMovements(movements, a, nextMovementId),
                                     b, nextMovementId + 1)]

\* C24: an adjustment of product P, applied or refused, leaves the
\* stock_quantity, the reorder_level and the movements of every other product
\* unchanged; and two adjustments of different products commute: committed
\* in either order they end with the same quantities and the same ledgers.
C24_AdjustIndependent ==
    [][/\ \A s \in Sessions, p \in ProductIds, d \in Deltas :
            (AdjustBegin(s, p, d) \/ (AdjustCommit(s) /\ sess[s].pid = p)) =>
               \A q \in DOMAIN products \ {p} :
                  /\ q \in DOMAIN products'
                  /\ products'[q] = products[q]
                  /\ MovementsOf(movements', q) = MovementsOf(movements, q)
       /\ \A s, t \in Sessions :
            (/\ s # t
             /\ sess[s].pc = "adjust_commit" /\ sess[t].pc = "adjust_commit"
             /\ sess[s].pid # sess[t].pid
             /\ sess[s].pid \in DOMAIN products /\ sess[t].pid \in DOMAIN products)
               => LET st == AdjustedBoth(sess[s], sess[t])
                      ts == AdjustedBoth(sess[t], sess[s])
                  IN /\ st.products = ts.products
                     /\ \A q \in DOMAIN products :
                           LedgerEntries(st.movements, q) = LedgerEntries(ts.movements, q)
                     /\ AdjustCommit(s) =>
                           /\ products'[sess[s].pid] = st.products[sess[s].pid]
                           /\ LedgerEntries(movements', sess[s].pid)
                                 = LedgerEntries(st.movements, sess[s].pid)
      ]_vars

\* an adjustment of one product was committed while an adjustment of another
\* product, begun before that commit, is still to commit
C24_Witness ==
    /\ last.op = "adjust" /\ last.status = 200
    /\ movements # {}
    /\ NewestMovement.quantity # 0
    /\ NewestMovement.movement_type \in {"stock_in", "stock_out"}
    /\ \E s \in Sessions :
          /\ sess[s].pc = "adjust_commit"
          /\ sess[s].pid # NewestMovement.product_id
          /\ sess[s].delta # 0

RECURSIVE SumQuantities(_)
SumQuantities(S) ==
    IF S = {} THEN 0
    ELSE LET m == CHOOSE x \in S : TRUE
         IN m.quantity + SumQuantities(S \ {m})

\* C25: with create_product, adjust_product_stock and delete_product served
\* one after the other, between calls every stored product's stock_quantity
\* is the sum of the quantities of its movements; a product starts with one
\* movement if it was created with stock > 0 and with none otherwise, every
\* successful adjustment adds exactly one and a failed one adds nothing.
C25_RunningQuantity ==
    [][/\ AllIdle' =>
            \A p \in DOMAIN products' :
               products'[p].stock_quantity = SumQuantities(MovementsOf(movements', p))
       /\ \A s \in Sessions :
            /\ AdjustCommit(s) =>
                 /\ last'.status = 200
                 /\ Cardinality(MovementsOf(movements', sess[s].pid))
                       = Cardinality(MovementsOf(movements, sess[s].pid)) + 1
            /\ (CreateCommitProduct(s) /\ sess[s].req.stock_quantity = 0) =>
                 /\ sess'[s].pc = "idle"
                 /\ MovementsOf(movements', nextProductId) = {}
            /\ CreateCommitMovement(s) =>
                 /\ sess[s].quantity > 0
                 /\ Cardinality(MovementsOf(movements', sess[s].pid)) = 1
       /\ \A s \in Sessions, p \in ProductIds, d \in Deltas :
            (AdjustBegin(s, p, d) /\ sess'[s].pc = "idle") => UNCHANGED db
      ]_vars

\* between calls, a product created with stock 1 and then raised by 1 stands
\* at 2 with two movements
C25_Witness ==
    /\ AllIdle
    /\ \E p \in DOMAIN products :
          /\ products[p].stock_quantity = 2
          /\ LedgerQuantities(movements, p) = <<1, 1>>

\* C26: in every state reached through create_product, update_product,
\* delete_category and delete_supplier, with requests carrying any id (0
\* included), every stored product's category_id is null or the id of a
\* stored category and its supplier_id is null or the id of a stored supplier.
C26_ReferencesValid ==
    \A p \in DOMAIN products :
       /\ products[p].category_id = NULL \/ products[p].category_id \in DOMAIN categories
       /\ products[p].supplier_id = NULL \/ products[p].supplier_id \in DOMAIN suppliers

\* a creation carrying category_id 0 passed the handler's check and is about
\* to insert, while a stored product references a stored category
C26_Witness ==
    /\ \E s \in Sessions : sess[s].pc = "create_commit" /\ sess[s].req.category_id = 0
    /\ \E p \in DOMAIN products : products[p].category_id \in DOMAIN categories

====
